---- MODULE Spec2Model ----
(***************************************************************************)
(* Model of main.py: the startup checks of main() and its endless          *)
(* capture -> record -> transcribe -> generate -> speak loop, with the     *)
(* two except clauses of the loop.                                         *)
(*                                                                         *)
(* Strings are sequences of one-character strings.  Durations are counted  *)
(* in tenths of a second.  Non-ASCII letters of the source's literals are  *)
(* written in ASCII.                                                       *)
(***************************************************************************)
EXTENDS Integers, Sequences, FiniteSets, TLC

(* ------------------------------ bounds --------------------------------- *)

\* longest text the transcription service returns (before strip())
MaxLen == 2

\* the count of consecutive failed iterations saturates here
MaxFails == 2

(* ------------------------- program constants --------------------------- *)

DEFAULT_VOICE_ID == <<"JBFqnCBsd6RMkjVDRZzb">>

\* the default of os.getenv("LOOP_DELAY_SECONDS", "1.0")
DEFAULT_LOOP_DELAY == <<"1", ".", "0">>

\* time.sleep(1.0) of the error handler, in tenths of a second
ERROR_PAUSE == 10

\* the literal of f"'{transcript_text or '[sin audio claro]'}'"
Placeholder == <<"[sin audio claro]">>

TextPrefix == <<"Este es el contexto del microfono transcrito: ">>

TextSuffix == <<"Describe que esta pasando como una camara de seguridad comica.">>

\* the statements of the try body that call a pipeline step, in order
Steps == <<"capture", "record", "transcribe", "generate", "speak">>

(* ----------------------------- strings --------------------------------- *)

\* os.getenv(k) of a variable that is not in the environment (None)
Unset == <<"<None>">>

IsSpace(c) == c \in {" ", "\t", "\n"}

RECURSIVE LStrip(_)
LStrip(s) == IF s # <<>> /\ IsSpace(Head(s)) THEN LStrip(Tail(s)) ELSE s

RECURSIVE RStrip(_)
RStrip(s) == IF s # <<>> /\ IsSpace(s[Len(s)]) THEN RStrip(SubSeq(s, 1, Len(s) - 1)) ELSE s

\* str.strip()
Strip(s) == RStrip(LStrip(s))

\* a check that lets the empty string pass
TruthyNotNone(v) == v # Unset

\* truth value of os.getenv(k): None and "" are false
Truthy(v) == v # Unset /\ v # <<>>

\* os.getenv(k, default)
getenv(env, k, default) == IF env[k] = Unset THEN default ELSE env[k]

Digits == {"0", "1", "2", "3", "4", "5", "6", "7", "8", "9"}

DigitVal == ("0" :> 0) @@ ("1" :> 1) @@ ("2" :> 2) @@ ("3" :> 3) @@ ("4" :> 4) @@ ("5" :> 5) @@ ("6" :> 6) @@ ("7" :> 7) @@ ("8" :> 8) @@ ("9" :> 9)

AllDigits(s) == \A i \in 1..Len(s) : s[i] \in Digits

RECURSIVE IntVal(_)
IntVal(s) == IF s = <<>> THEN 0 ELSE IntVal(SubSeq(s, 1, Len(s) - 1)) * 10 + DigitVal[s[Len(s)]]

\* position of the first "." of s, or Len(s) + 1
PointPos(s) == IF \E i \in 1..Len(s) : s[i] = "." THEN CHOOSE i \in 1..Len(s) : s[i] = "." /\ \A j \in 1..(i - 1) : s[j] # "." ELSE Len(s) + 1

ValueError == [ok |-> FALSE, kind |-> "ValueError", neg |-> FALSE, tenths |-> 0]

\* float() of an unsigned body: "nan", "inf", or digits with at most one
\* point and at least one digit; the value is kept to one decimal place
FloatBody(b, neg) ==
  IF b = <<"n", "a", "n">> THEN [ok |-> TRUE, kind |-> "nan", neg |-> neg, tenths |-> 0]
  ELSE IF b = <<"i", "n", "f">> THEN [ok |-> TRUE, kind |-> "inf", neg |-> neg, tenths |-> 0]
  ELSE LET p == PointPos(b)
           ip == SubSeq(b, 1, p - 1)
           fp == SubSeq(b, p + 1, Len(b))
       IN IF AllDigits(ip) /\ AllDigits(fp) /\ Len(ip) + Len(fp) >= 1
          THEN [ok |-> TRUE, kind |-> "num", neg |-> neg,
                tenths |-> IntVal(ip) * 10 + (IF fp = <<>> THEN 0 ELSE DigitVal[fp[1]])]
          ELSE ValueError

\* float(s)
ParseFloat(s) ==
  LET t == Strip(s)
  IN IF t = <<>> THEN ValueError
     ELSE IF Head(t) = "-" THEN FloatBody(Tail(t), TRUE)
     ELSE IF Head(t) = "+" THEN FloatBody(Tail(t), FALSE)
     ELSE FloatBody(t, FALSE)

\* time.sleep(d) returns for a finite d >= 0 and raises for the rest
SleepOk(d) == d.kind = "num" /\ (~d.neg \/ d.tenths = 0)

\* the text part without the "or": the transcript as it is
UserTextNoPlaceholder(transcript) == TextPrefix \o <<"'">> \o transcript \o <<"'", ".", " ">> \o TextSuffix

\* the "text" part of user_content in generate_goofy_reply
UserText(transcript) ==
  TextPrefix \o <<"'">> \o (IF transcript # <<>> THEN transcript ELSE Placeholder) \o <<"'", ".", " ">> \o TextSuffix

\* what stands between the two quotes of a text part
Quoted(text) == SubSeq(text, Len(TextPrefix) + 2, Len(text) - Len(TextSuffix) - 3)

(* ------------------------------ inputs --------------------------------- *)

EnvKeys == {"GEMINI_API_KEY", "ELEVENLABS_API_KEY", "ELEVENLABS_VOICE_ID", "LOOP_DELAY_SECONDS"}

Credentials == {"GEMINI_API_KEY", "ELEVENLABS_API_KEY"}

KeyValues == {Unset, <<>>, <<"k">>}

VoiceValues == {Unset, <<"v">>}

DelayValues == {Unset, <<>>, <<"a">>, <<"0", ".", "5">>, <<"-", "1">>, <<"n", "a", "n">>, <<"i", "n", "f">>}

\* the process environment main() is started in
Environments ==
  {[GEMINI_API_KEY |-> g, ELEVENLABS_API_KEY |-> e, ELEVENLABS_VOICE_ID |-> v, LOOP_DELAY_SECONDS |-> d] :
      g \in KeyValues, e \in KeyValues, v \in VoiceValues, d \in DelayValues}

\* the .env file load_dotenv() finds: it may supply the credentials
DotenvFiles ==
  {[GEMINI_API_KEY |-> g, ELEVENLABS_API_KEY |-> e, ELEVENLABS_VOICE_ID |-> Unset, LOOP_DELAY_SECONDS |-> Unset] :
      g \in {Unset, <<"k">>}, e \in {Unset, <<"k">>}}

Alphabet == {" ", "a"}

RECURSIVE SeqsUpTo(_)
SeqsUpTo(n) == IF n = 0 THEN {<<>>} ELSE LET R == SeqsUpTo(n - 1) IN R \cup {Append(s, c) : s \in {r \in R : Len(r) = n - 1}, c \in Alphabet}

\* result.text of the transcription service
ServiceTexts == SeqsUpTo(MaxLen)

(* ------------------------------- state --------------------------------- *)

VARIABLES
  environ,          \* os.environ
  filled,           \* the credentials load_dotenv() added to os.environ
  voice_id,         \* local of main()
  loop_delay,       \* local of main(): the float, as ParseFloat gives it
  pc,               \* the statement main() is at
  exc,              \* the exception being raised or handled
  inStep,           \* the pipeline step whose call has not returned
  stage,            \* inside speak_with_elevenlabs: before or after sd.play
  playing,          \* an output stream started by sd.play is open
  frame_b64,        \* local of main(): tag of the value it holds
  wav_path,         \* local of main(): tag
  transcript_text,  \* local of main(): tag and text
  reply,            \* local of main(): tag
  console,          \* the last line printed
  banner,           \* the "iniciada" line has been printed
  calls,            \* steps started in the current iteration
  done,             \* steps that returned in the current iteration
  sleeps,           \* time.sleep calls that returned in the current iteration
  genArgs,          \* arguments of the last generate_goofy_reply call
  prompt,           \* text part built by the last generate_goofy_reply call
  speakArgs,        \* arguments of the last speak_with_elevenlabs call
  fails,            \* consecutive iterations that ended in the error handler
  cut               \* the step an interrupt arrived in

vars == <<environ, filled, voice_id, loop_delay, pc, exc, inStep, stage, playing, frame_b64, wav_path,
          transcript_text, reply, console, banner, calls, done, sleeps, genArgs, prompt, speakArgs, fails, cut>>

config == <<environ, filled, voice_id, loop_delay>>

locals == <<frame_b64, wav_path, transcript_text, reply>>

history == <<calls, done, sleeps, genArgs, prompt, speakArgs, fails, cut>>

NoFloat == [ok |-> FALSE, kind |-> "unbound", neg |-> FALSE, tenths |-> 0]

NoText == [tag |-> "unbound", text |-> <<>>]

Init ==
  /\ environ \in Environments
  /\ filled = {}
  /\ voice_id = Unset
  /\ loop_delay = NoFloat
  /\ pc = "load_dotenv"
  /\ exc = "none"
  /\ inStep = "none"
  /\ stage = "none"
  /\ playing = FALSE
  /\ frame_b64 = "unbound"
  /\ wav_path = "unbound"
  /\ transcript_text = NoText
  /\ reply = "unbound"
  /\ console = "none"
  /\ banner = FALSE
  /\ calls = <<>>
  /\ done = <<>>
  /\ sleeps = <<>>
  /\ genArgs = <<>>
  /\ prompt = <<>>
  /\ speakArgs = <<>>
  /\ fails = 0
  /\ cut = "none"

(* ------------------------------ startup -------------------------------- *)

\* load_dotenv(): a value of the file fills in a variable only when the
\* process environment does not have it (override is off)
LoadDotenv ==
  /\ pc = "load_dotenv"
  /\ \E file \in DotenvFiles :
       /\ environ' = [k \in EnvKeys |-> IF environ[k] = Unset THEN file[k] ELSE environ[k]]
       /\ filled' = {k \in Credentials : environ[k] = Unset /\ file[k] # Unset}
  /\ pc' = "check_gemini"
  /\ UNCHANGED <<voice_id, loop_delay, exc, inStep, stage, playing, locals, console, banner, history>>

CheckCredential(here, k, next) ==
  /\ pc = here
  /\ IF Truthy(environ[k])
     THEN pc' = next /\ exc' = exc
     ELSE pc' = "raised" /\ exc' = "RuntimeError"
  /\ UNCHANGED <<config, inStep, stage, playing, locals, console, banner, history>>

CheckGemini == CheckCredential("check_gemini", "GEMINI_API_KEY", "check_eleven")

CheckEleven == CheckCredential("check_eleven", "ELEVENLABS_API_KEY", "config")

\* voice_id = os.getenv(...); loop_delay = float(os.getenv(...))
Configure ==
  /\ pc = "config"
  /\ voice_id' = getenv(environ, "ELEVENLABS_VOICE_ID", DEFAULT_VOICE_ID)
  /\ LET f == ParseFloat(getenv(environ, "LOOP_DELAY_SECONDS", DEFAULT_LOOP_DELAY))
     IN IF f.ok
        THEN loop_delay' = f /\ pc' = "banner" /\ exc' = exc
        ELSE loop_delay' = loop_delay /\ pc' = "raised" /\ exc' = "ValueError"
  /\ UNCHANGED <<environ, filled, inStep, stage, playing, locals, console, banner, history>>

Banner ==
  /\ pc = "banner"
  /\ console' = "banner"
  /\ banner' = TRUE
  /\ pc' = "capture"
  /\ UNCHANGED <<config, exc, inStep, stage, playing, locals, history>>

(* ----------------------------- the loop --------------------------------- *)

Age(tag) == IF tag = "fresh" THEN "stale" ELSE tag

\* a mis-ordered try body: the reply is never generated
NextPcSkip(p) ==
  CASE p = "capture" -> "record"
    [] p = "record" -> "transcribe"
    [] p = "transcribe" -> "print_reply"
    [] p = "print_transcript" -> "generate"
    [] p = "generate" -> "print_reply"
    [] p = "print_reply" -> "speak"
    [] p = "speak" -> "sleep"
    [] p = "sleep" -> "capture"

\* the statement that follows statement p of the try body; the body is
\* followed by the next pass of while True
NextPc(p) ==
  CASE p = "capture" -> "record"
    [] p = "record" -> "transcribe"
    [] p = "transcribe" -> "print_transcript"
    [] p = "print_transcript" -> "generate"
    [] p = "generate" -> "print_reply"
    [] p = "print_reply" -> "speak"
    [] p = "speak" -> "sleep"
    [] p = "sleep" -> "capture"

TryBody == {"capture", "record", "transcribe", "print_transcript", "generate", "print_reply", "speak", "sleep"}

Startup == {"load_dotenv", "check_gemini", "check_eleven", "config", "banner"}

Handlers == {"except_kbd", "except_exc", "err_sleep"}

\* frame_b64 = capture_webcam_frame(): the call.  A new pass of the loop
\* starts here: what the locals hold is from an earlier pass from now on.
CaptureCall ==
  /\ pc = "capture" /\ inStep = "none"
  /\ inStep' = "capture"
  /\ frame_b64' = Age(frame_b64)
  /\ wav_path' = Age(wav_path)
  /\ transcript_text' = [transcript_text EXCEPT !.tag = Age(@)]
  /\ reply' = Age(reply)
  /\ calls' = <<"capture">>
  /\ done' = <<>>
  /\ sleeps' = <<>>
  /\ genArgs' = <<>>
  /\ prompt' = <<>>
  /\ speakArgs' = <<>>
  /\ UNCHANGED <<config, pc, exc, stage, playing, console, banner, fails, cut>>

CaptureReturn ==
  /\ inStep = "capture"
  /\ frame_b64' = "fresh"
  /\ inStep' = "none"
  /\ done' = Append(done, "capture")
  /\ pc' = NextPc("capture")
  /\ UNCHANGED <<config, exc, stage, playing, wav_path, transcript_text, reply, console, banner,
                 calls, sleeps, genArgs, prompt, speakArgs, fails, cut>>

\* wav_path = record_microphone_wav(): the call prints its notice first
RecordCall ==
  /\ pc = "record" /\ inStep = "none"
  /\ inStep' = "record"
  /\ console' = "recording"
  /\ calls' = Append(calls, "record")
  /\ UNCHANGED <<config, pc, exc, stage, playing, locals, banner, done, sleeps, genArgs, prompt, speakArgs, fails, cut>>

RecordReturn ==
  /\ inStep = "record"
  /\ wav_path' = "fresh"
  /\ inStep' = "none"
  /\ done' = Append(done, "record")
  /\ pc' = NextPc("record")
  /\ UNCHANGED <<config, exc, stage, playing, frame_b64, transcript_text, reply, console, banner,
                 calls, sleeps, genArgs, prompt, speakArgs, fails, cut>>

TranscribeCall ==
  /\ pc = "transcribe" /\ inStep = "none"
  /\ inStep' = "transcribe"
  /\ calls' = Append(calls, "transcribe")
  /\ UNCHANGED <<config, pc, exc, stage, playing, locals, console, banner, done, sleeps, genArgs, prompt,
                 speakArgs, fails, cut>>

\* return result.text.strip()
TranscribeReturn ==
  /\ inStep = "transcribe"
  /\ \E text \in ServiceTexts : transcript_text' = [tag |-> "fresh", text |-> Strip(text)]
  /\ inStep' = "none"
  /\ done' = Append(done, "transcribe")
  /\ pc' = NextPc("transcribe")
  /\ UNCHANGED <<config, exc, stage, playing, frame_b64, wav_path, reply, console, banner,
                 calls, sleeps, genArgs, prompt, speakArgs, fails, cut>>

PrintTranscript ==
  /\ pc = "print_transcript"
  /\ console' = "transcript"
  /\ pc' = NextPc("print_transcript")
  /\ UNCHANGED <<config, exc, inStep, stage, playing, locals, banner, history>>

\* reply = generate_goofy_reply(frame_b64, transcript_text): the call builds
\* user_content from its arguments
GenerateCall ==
  /\ pc = "generate" /\ inStep = "none"
  /\ inStep' = "generate"
  /\ genArgs' = <<frame_b64, transcript_text>>
  /\ prompt' = UserText(transcript_text.text)
  /\ calls' = Append(calls, "generate")
  /\ UNCHANGED <<config, pc, exc, stage, playing, locals, console, banner, done, sleeps, speakArgs, fails, cut>>

GenerateReturn ==
  /\ inStep = "generate"
  /\ reply' = "fresh"
  /\ inStep' = "none"
  /\ done' = Append(done, "generate")
  /\ pc' = NextPc("generate")
  /\ UNCHANGED <<config, exc, stage, playing, frame_b64, wav_path, transcript_text, console, banner,
                 calls, sleeps, genArgs, prompt, speakArgs, fails, cut>>

PrintReply ==
  /\ pc = "print_reply"
  /\ console' = "reply"
  /\ pc' = NextPc("print_reply")
  /\ UNCHANGED <<config, exc, inStep, stage, playing, locals, banner, history>>

\* speak_with_elevenlabs(reply, voice_id): the call
SpeakCall ==
  /\ pc = "speak" /\ inStep = "none"
  /\ inStep' = "speak"
  /\ stage' = "tts"
  /\ speakArgs' = <<reply, voice_id>>
  /\ calls' = Append(calls, "speak")
  /\ UNCHANGED <<config, pc, exc, playing, locals, console, banner, done, sleeps, genArgs, prompt, fails, cut>>

\* sd.play returning to main() with the stream still open: no sd.wait()
SpeakPlayNoWait ==
  /\ inStep = "speak" /\ stage = "tts"
  /\ playing' = TRUE
  /\ stage' = "none"
  /\ inStep' = "none"
  /\ done' = Append(done, "speak")
  /\ pc' = NextPc("speak")
  /\ UNCHANGED <<config, exc, locals, console, banner, calls, sleeps, genArgs, prompt, speakArgs, fails, cut>>

\* convert, join, write, sf.read and sd.play(data, sr): the stream is open
\* and sd.play has returned
SpeakPlay ==
  /\ inStep = "speak" /\ stage = "tts"
  /\ playing' = TRUE
  /\ stage' = "wait"
  /\ UNCHANGED <<config, pc, exc, inStep, locals, console, banner, history>>

\* sd.wait() returns when the stream has played everything, and closes it
SpeakReturn ==
  /\ inStep = "speak" /\ stage = "wait"
  /\ playing' = FALSE
  /\ stage' = "none"
  /\ inStep' = "none"
  /\ done' = Append(done, "speak")
  /\ pc' = NextPc("speak")
  /\ UNCHANGED <<config, exc, locals, console, banner, calls, sleeps, genArgs, prompt, speakArgs, fails, cut>>

\* a step that swallows its error, main() going on with the next statement
StepRaiseResume ==
  /\ inStep # "none"
  /\ inStep = "speak" => stage = "tts"
  /\ pc' = NextPc(inStep)
  /\ inStep' = "none"
  /\ stage' = "none"
  /\ UNCHANGED <<config, exc, playing, locals, console, banner, history>>

\* the step in progress raises an Exception (device, file or service error);
\* nothing in the steps catches it, so the try statement of main() does.
\* sd.wait() of speak_with_elevenlabs has nothing that raises one.
StepRaise ==
  /\ inStep # "none"
  /\ inStep = "speak" => stage = "tts"
  /\ exc' = "Exception"
  /\ pc' = "except_exc"
  /\ inStep' = "none"
  /\ stage' = "none"
  /\ UNCHANGED <<config, playing, locals, console, banner, history>>

\* time.sleep(loop_delay), the last statement of the try body
Sleep ==
  /\ pc = "sleep"
  /\ IF SleepOk(loop_delay)
     THEN /\ sleeps' = Append(sleeps, [kind |-> "delay", tenths |-> loop_delay.tenths])
          /\ fails' = 0
          /\ pc' = NextPc("sleep")
          /\ exc' = exc
     ELSE /\ exc' = "Exception"
          /\ pc' = "except_exc"
          /\ UNCHANGED <<sleeps, fails>>
  /\ UNCHANGED <<config, inStep, stage, playing, locals, console, banner, calls, done, genArgs, prompt, speakArgs, cut>>

\* except Exception as e: the error handler re-raising instead of printing
ExceptExcReraise ==
  /\ pc = "except_exc"
  /\ pc' = "raised"
  /\ UNCHANGED <<config, exc, inStep, stage, playing, locals, console, banner, history>>

\* except Exception as e: print(...)
ExceptExc ==
  /\ pc = "except_exc"
  /\ console' = "error"
  /\ pc' = "err_sleep"
  /\ UNCHANGED <<config, exc, inStep, stage, playing, locals, banner, history>>

\* time.sleep(1.0) of the error handler, then the next pass of the loop
ErrSleep ==
  /\ pc = "err_sleep"
  /\ sleeps' = Append(sleeps, [kind |-> "pause", tenths |-> ERROR_PAUSE])
  /\ fails' = IF fails < MaxFails THEN fails + 1 ELSE fails
  /\ exc' = "none"
  /\ pc' = "capture"
  /\ UNCHANGED <<config, inStep, stage, playing, locals, console, banner, calls, done, genArgs, prompt, speakArgs, cut>>

\* except KeyboardInterrupt without its break: the loop goes on
ExceptKbdContinue ==
  /\ pc = "except_kbd"
  /\ console' = "farewell"
  /\ exc' = "none"
  /\ pc' = "capture"
  /\ UNCHANGED <<config, inStep, stage, playing, locals, banner, history>>

\* except KeyboardInterrupt: print the farewell, break; main() returns
ExceptKbd ==
  /\ pc = "except_kbd"
  /\ console' = "farewell"
  /\ exc' = "none"
  /\ pc' = "returned"
  /\ UNCHANGED <<config, inStep, stage, playing, locals, banner, history>>

(* ------------------------ the operator's interrupt --------------------- *)

\* SIGINT before the try statement is entered: nothing catches the
\* KeyboardInterrupt
InterruptStartup ==
  /\ pc \in Startup
  /\ exc' = "KeyboardInterrupt"
  /\ pc' = "raised"
  /\ UNCHANGED <<config, inStep, stage, playing, locals, console, banner, history>>

\* SIGINT while the try body runs.  Python raises KeyboardInterrupt in the
\* main thread wherever it is, inside a step as well; the except clause of
\* main() catches it.  sd.wait() closes the stream on its way out; an
\* interrupt that arrives after sd.play and before sd.wait leaves it open.
InterruptTry ==
  /\ pc \in TryBody
  /\ exc' = "KeyboardInterrupt"
  /\ pc' = "except_kbd"
  /\ cut' = inStep
  /\ inStep' = "none"
  /\ stage' = "none"
  /\ IF stage = "wait" THEN playing' \in {FALSE, playing} ELSE playing' = playing
  /\ UNCHANGED <<config, locals, console, banner, calls, done, sleeps, genArgs, prompt, speakArgs, fails>>

\* SIGINT while an except clause runs: the KeyboardInterrupt is raised
\* outside the try body, so no clause of the try statement catches it
InterruptHandler ==
  /\ pc \in Handlers
  /\ exc' = "KeyboardInterrupt"
  /\ pc' = "raised"
  /\ UNCHANGED <<config, inStep, stage, playing, locals, console, banner, history>>

(* --------------------------- specifications ---------------------------- *)

\* the steps main() takes by itself
Step ==
  \/ LoadDotenv
  \/ CheckGemini
  \/ CheckEleven
  \/ Configure
  \/ Banner
  \/ CaptureCall
  \/ CaptureReturn
  \/ RecordCall
  \/ RecordReturn
  \/ TranscribeCall
  \/ TranscribeReturn
  \/ PrintTranscript
  \/ GenerateCall
  \/ GenerateReturn
  \/ PrintReply
  \/ SpeakCall
  \/ SpeakPlay
  \/ SpeakReturn
  \/ Sleep
  \/ ExceptExc
  \/ ErrSleep
  \/ ExceptKbd

Next ==
  \/ Step
  \/ StepRaise
  \/ InterruptStartup
  \/ InterruptTry
  \/ InterruptHandler

Spec == Init /\ [][Next]_vars

\* every call main() makes returns or raises, and main() runs on
FairSpec == Init /\ [][Next]_vars /\ WF_vars(Step)

TypeOK ==
  /\ environ \in Environments
  /\ pc \in Startup \cup TryBody \cup Handlers \cup {"returned", "raised"}
  /\ exc \in {"none", "RuntimeError", "ValueError", "Exception", "KeyboardInterrupt"}
  /\ inStep \in {"none"} \cup {Steps[i] : i \in 1..Len(Steps)}
  /\ playing \in BOOLEAN
  /\ fails \in 0..MaxFails

(* ------------------------------ properties ------------------------------ *)

IsPrefix(a, b) == Len(a) <= Len(b) /\ a = SubSeq(b, 1, Len(a))

\* a credential is absent or empty
MissingCredential == \E k \in Credentials : environ[k] \in {Unset, <<>>}

\* C1: an iteration whose steps all return ran the five steps once each, in
\* the order capture, record, transcribe, generate, speak; at every moment
\* the steps started so far are an initial part of that order, and a step
\* starts only when every step started before it has returned.
C1_StepOrder ==
  /\ IsPrefix(calls, Steps)
  /\ IsPrefix(done, calls)
  /\ Len(calls) - Len(done) <= 1
  /\ inStep # "none" => Len(calls) = Len(done) + 1 /\ calls[Len(calls)] = inStep
  /\ pc = "sleep" => done = Steps /\ calls = Steps /\ inStep = "none"
  /\ sleeps # <<>> /\ sleeps[1].kind = "delay" => done = Steps

C1_Witness == pc = "capture" /\ inStep = "none" /\ done = Steps /\ sleeps # <<>> /\ sleeps[1].kind = "delay"

\* C2 (as stated): a credential that is absent or empty in the environment
\* main() starts with keeps the banner from being printed.
C2_AbsentAtStart == (MissingCredential \/ filled # {}) => ~banner

\* C2 (amended): a credential that is absent or empty once load_dotenv() has
\* run makes main() raise: the banner is not printed, no step starts, and
\* main() is at a credential check or has raised.
C2_MissingAfterLoad ==
  (pc # "load_dotenv" /\ MissingCredential) =>
     /\ ~banner
     /\ console = "none"
     /\ calls = <<>>
     /\ pc \in {"check_gemini", "check_eleven", "raised"}
     /\ pc = "raised" => exc \in {"RuntimeError", "KeyboardInterrupt"}

C2_Witness ==
  /\ pc = "raised" /\ exc = "RuntimeError"
  /\ environ["GEMINI_API_KEY"] = <<"k">>
  /\ environ["ELEVENLABS_API_KEY"] = <<>>

\* C3: an Exception raised inside the loop never leaves main(); it is caught
\* by the loop's handler, which prints the error line and pauses; unless the
\* operator interrupts, the next iteration then starts, however many
\* iterations have failed in a row.
C3_Contained ==
  /\ [](pc = "raised" => exc # "Exception")
  /\ [][exc' = "Exception" /\ exc # "Exception" => pc' = "except_exc" /\ inStep' = "none"]_vars
  /\ [][pc = "except_exc" /\ pc' # "raised" => pc' = "err_sleep" /\ console' = "error"]_vars
  /\ [][pc = "err_sleep" /\ pc' # "raised" => pc' = "capture" /\ exc' = "none"]_vars
  /\ (pc = "except_exc") ~> ((pc = "capture" /\ inStep = "none") \/ pc = "raised")
  /\ (pc = "capture" /\ inStep = "none" /\ fails > 0) ~> (inStep = "capture" \/ pc \in {"except_kbd", "returned", "raised"})

C3_Witness == fails = MaxFails /\ inStep = "capture" /\ console = "error"

\* C4: once the banner is out, an interrupt never ends main() with an
\* uncaught KeyboardInterrupt, not even after the error line was printed.
C4_CleanShutdown == (pc = "raised" /\ exc = "KeyboardInterrupt" /\ console = "error") => ~banner

\* C5 (as stated): the interrupt takes effect only when no step is in
\* progress.
C5_OnlyBetweenSteps == [][pc' = "except_kbd" /\ pc # "except_kbd" => inStep = "none"]_vars

\* C5 (amended): only the loop's KeyboardInterrupt clause handles the
\* interrupt, and it takes effect at once, also in the middle of a step: the
\* step in progress is abandoned, no further step of the iteration starts or
\* completes, and the loop is left.
C5_AbandonsStep ==
  /\ [][pc' = "except_kbd" /\ pc # "except_kbd" =>
          pc \in TryBody /\ inStep' = "none" /\ calls' = calls /\ done' = done /\ locals' = locals]_vars
  /\ [][pc = "except_kbd" => pc' \in {"returned", "raised"} /\ calls' = calls /\ done' = done]_vars

C5_Witness == pc = "returned" /\ cut = "transcribe" /\ calls = <<"capture", "record", "transcribe">> /\ done = <<"capture", "record">>

\* C6: main() ends with an exception other than the operator's interrupt
\* only when a credential is missing.
C6_OnlyCredentialFatal == (pc = "raised" /\ exc # "KeyboardInterrupt") => (exc = "RuntimeError" /\ MissingCredential)

\* C7: at the start of every further iteration exactly one sleep lies behind:
\* the configured delay (1.0 s when unset) after five successful steps, the
\* 1-second pause otherwise.
C7_OneSleep ==
  (pc = "capture" /\ inStep = "none" /\ calls # <<>>) =>
     /\ Len(sleeps) = 1
     /\ IF done = Steps
        THEN /\ sleeps[1] = [kind |-> "delay", tenths |-> loop_delay.tenths]
             /\ environ["LOOP_DELAY_SECONDS"] = Unset => sleeps[1].tenths = 10
        ELSE sleeps[1] = [kind |-> "pause", tenths |-> ERROR_PAUSE]

\* C8: the text part built by generate_goofy_reply has the placeholder
\* between its quotes when the transcript is empty, and the transcript
\* itself when it is not; the quotes are never empty.
C8_Placeholder ==
  prompt # <<>> =>
     LET t == genArgs[2].text
     IN /\ Quoted(prompt) # <<>>
        /\ t = <<>> => Quoted(prompt) = Placeholder
        /\ t # <<>> => Quoted(prompt) = t
        /\ SubSeq(prompt, 1, Len(TextPrefix) + 1) = TextPrefix \o <<"'">>
        /\ prompt[Len(prompt) - Len(TextSuffix) - 2] = "'"

C8_Witness == prompt # <<>> /\ genArgs[2].text = <<>> /\ inStep = "generate"

\* C9: while main() is in the loop and outside sd.wait(), no playback is in
\* progress: a playback has ended before the sleep and before the next
\* capture, and a new one starts only when none is open.
C9_NoOverlap ==
  (playing /\ pc \in TryBody \cup {"except_exc", "err_sleep"}) => (inStep = "speak" /\ stage = "wait")

C9_Witness == pc = "capture" /\ inStep = "none" /\ done = Steps /\ ~playing /\ sleeps # <<>>

\* C10: generate_goofy_reply and speak_with_elevenlabs get values made in the
\* iteration that calls them; after a step raises, no step runs until the
\* next iteration starts again at capture.
C10_NoReuse ==
  /\ [](genArgs # <<>> => genArgs[1] = "fresh" /\ genArgs[2].tag = "fresh")
  /\ [](speakArgs # <<>> => speakArgs[1] = "fresh")
  /\ [](pc \in {"except_exc", "err_sleep"} => inStep = "none")
  /\ [][(pc \in {"except_exc", "err_sleep"}) => (pc' \in {"err_sleep", "capture", "raised"} /\ calls' = calls /\ done' = done)]_vars

C10_Witness == speakArgs # <<>> /\ genArgs # <<>> /\ fails > 0 /\ inStep = "speak"

====
